---- MODULE Spec2Model ----
(***************************************************************************)
(* A model of the Amulet map editor's NBT tree editor (nbt_editor.py), its *)
(* key/mouse event serialiser (key_config.py), the select tool's movement  *)
(* buttons (select.py) and the coordinate dialog (goto.py).                *)
(*                                                                         *)
(* The parts share no state.  Each has its own specification:              *)
(*   SpecKey     serialise_key_event applied to key and mouse events       *)
(*   SpecButton  a MovementButton receiving press / release / held events  *)
(*   SpecSelect  the three buttons that move the points of the selection   *)
(*   SpecGoTo    a GoTo dialog receiving Ctrl+C, Ctrl+V and other keys     *)
(*   SpecParse   parse_nbt followed by build_nbt on bounded NBT documents, *)
(*               and the tree NBTEditor builds from the result             *)
(*   Spec        an NBTEditor with its non-modal Add Tag / Edit Tag        *)
(*               dialogs                                                   *)
(* The variables a specification does not use keep their initial value.    *)
(***************************************************************************)
EXTENDS Integers, Sequences, FiniteSets, Bags, TLC

VARIABLES
    \* key_config.py
    evt,            \* the event handed to serialise_key_event
    key_result,     \* what serialise_key_event returned for it
    \* select.py, MovementButton
    _listen,        \* MovementButton._listen
    _timeout,       \* MovementButton._timeout
    yaw,            \* camera.rotation[0], in degrees
    moved,          \* whether the last event called _move, and with which offset
    box_click,      \* history: the most recent ACT_BOX_CLICK event on the button
    \* select.py, the buttons that move the selection
    active_block_positions, \* BlockSelectionBehaviour.active_block_positions:
                    \* <<point 1, point 2>>
    move_evt,       \* the last handler of the select tool that wrote the points
    \* goto.py
    location,       \* the values of the dialog's x, y and z spin controls
    clipboard,      \* what wx.TheClipboard holds
    text_evt,       \* the last event handed to _on_text, and what became of it
    \* nbt_editor.py
    phase,          \* "new" before NBTEditor.__init__, then "ready" or "crashed"
    nbt_data,       \* the NBT object passed to NBTEditor.__init__
    heap,           \* the ParsedNBT objects ever created; heap[1] is NBTEditor._parent
    tree,           \* the items of NBTEditor.tree, a wx.TreeCtrl
    dialogs,        \* the open NewTagDialog / EditTagDialog frames, a bag: two
                    \* dialogs may hold the same
    nbt_out,        \* the object the last handler returned, when it was a read
                    \* of NBTEditor.nbt
    last            \* the outcome of the last handler that ran

keyVars == <<evt, key_result>>
buttonVars == <<_listen, _timeout, yaw, moved, box_click>>
selectVars == <<active_block_positions, move_evt>>
gotoVars == <<location, clipboard, text_evt>>
nbtVars == <<phase, nbt_data, heap, tree, dialogs, nbt_out, last>>
vars == <<evt, key_result, _listen, _timeout, yaw, moved, box_click,
          active_block_positions, move_evt, location, clipboard, text_evt,
          phase, nbt_data, heap, tree, dialogs, nbt_out, last>>

(***************************************************************************)
(* key_config.py                                                           *)
(***************************************************************************)

\* wx key codes (wx.WXK_*), as the toolkit defines them.
WXK_SPACE == 32
WXK_SHIFT == 306
WXK_ALT == 307
WXK_CONTROL == 308
WXK_PAGEUP == 366
WXK_PAGEDOWN == 367

MouseLeft == "ML"
MouseMiddle == "MM"
MouseRight == "MR"
MouseWheelScrollUp == "MWSU"
MouseWheelScrollDown == "MWSD"
Control == "CTRL"
Shift == "SHIFT"
Alt == "ALT"
Space == "SPACE"
PageUp == "PAGE_UP"
PageDown == "PAGE_DOWN"

\* A serialised key: a one-character string (held by its code point), one of
\* the names of key_string_map or of the mouse buttons, or a bare key code.
KeyChr(c) == [kind |-> "chr", code |-> c, name |-> ""]
KeyName(s) == [kind |-> "name", code |-> 0, name |-> s]
KeyCode(c) == [kind |-> "code", code |-> c, name |-> ""]

key_string_map ==
    (WXK_SHIFT :> Shift) @@ (WXK_ALT :> Alt) @@ (WXK_SPACE :> Space)
    @@ (WXK_PAGEUP :> PageUp) @@ (WXK_PAGEDOWN :> PageDown)

_mouse_events_down_only ==
    ("EVT_LEFT_DOWN" :> MouseLeft) @@ ("EVT_MIDDLE_DOWN" :> MouseMiddle)
    @@ ("EVT_RIGHT_DOWN" :> MouseRight)

_mouse_events ==
    ("EVT_LEFT_DOWN" :> MouseLeft) @@ ("EVT_LEFT_UP" :> MouseLeft)
    @@ ("EVT_MIDDLE_DOWN" :> MouseMiddle) @@ ("EVT_MIDDLE_UP" :> MouseMiddle)
    @@ ("EVT_RIGHT_DOWN" :> MouseRight) @@ ("EVT_RIGHT_UP" :> MouseRight)

\* str.upper() on a one-character string in 33..126: a..z go to A..Z.
Upper(c) == IF 97 <= c /\ c <= 122 THEN c - 32 ELSE c

\* The value of a call that returns nothing (None), and of one that returns
\* the pair (modifier, key).
NoBinding == [none |-> TRUE, modifier |-> <<>>, key |-> KeyCode(0)]
Binding(m, k) == [none |-> FALSE, modifier |-> m, key |-> k]

\* evt.GetUnicodeKey() or evt.GetKeyCode()
EventKey(e) == IF e.unicode # 0 THEN e.unicode ELSE e.keycode

serialise_key_event_no_modifier_check(e) ==
    IF e.cls = "KeyEvent"
    THEN LET key == EventKey(e)
             modifier ==
                 IF e.ctrl
                 THEN <<Control>> \o (IF e.shift THEN <<Shift>> ELSE <<>>)
                                  \o (IF e.alt THEN <<Alt>> ELSE <<>>)
                 ELSE <<>>
         IN  IF key = WXK_CONTROL THEN NoBinding
             ELSE IF 33 <= key /\ key <= 126
                  THEN Binding(modifier, KeyChr(Upper(key)))
                  ELSE IF key \in DOMAIN key_string_map
                       THEN Binding(modifier, KeyName(key_string_map[key]))
                       ELSE Binding(modifier, KeyCode(key))
    ELSE NoBinding

serialise_key_event_no_upper(e) ==
    IF e.cls = "KeyEvent"
    THEN LET key == EventKey(e)
             modifier ==
                 IF e.ctrl
                 THEN <<Control>> \o (IF e.shift THEN <<Shift>> ELSE <<>>)
                                  \o (IF e.alt THEN <<Alt>> ELSE <<>>)
                 ELSE <<>>
         IN  IF key = WXK_CONTROL THEN NoBinding
             ELSE IF e.ctrl /\ key \in {WXK_SHIFT, WXK_ALT} THEN NoBinding
             ELSE IF 33 <= key /\ key <= 126
                  THEN Binding(modifier, KeyChr(key))
                  ELSE IF key \in DOMAIN key_string_map
                       THEN Binding(modifier, KeyName(key_string_map[key]))
                       ELSE Binding(modifier, KeyCode(key))
    ELSE NoBinding

serialise_key_event(e) ==
    IF e.cls = "KeyEvent"
    THEN LET key == EventKey(e)
             modifier ==
                 IF e.ctrl
                 THEN <<Control>> \o (IF e.shift THEN <<Shift>> ELSE <<>>)
                                  \o (IF e.alt THEN <<Alt>> ELSE <<>>)
                 ELSE <<>>
         IN  IF key = WXK_CONTROL THEN NoBinding
             ELSE IF e.ctrl /\ key \in {WXK_SHIFT, WXK_ALT} THEN NoBinding
             ELSE IF 33 <= key /\ key <= 126
                  THEN Binding(modifier, KeyChr(Upper(key)))
                  ELSE IF key \in DOMAIN key_string_map
                       THEN Binding(modifier, KeyName(key_string_map[key]))
                       ELSE Binding(modifier, KeyCode(key))
    ELSE IF e.cls = "MouseEvent"
    THEN IF e.type = "EVT_MOUSEWHEEL"
         THEN IF e.wheel < 0 THEN Binding(<<>>, KeyName(MouseWheelScrollDown))
              ELSE IF e.wheel > 0 THEN Binding(<<>>, KeyName(MouseWheelScrollUp))
              ELSE NoBinding
         ELSE IF e.type \in DOMAIN _mouse_events
              THEN Binding(<<>>, KeyName(_mouse_events[e.type]))
              ELSE NoBinding
    ELSE NoBinding

\* The events the model feeds to serialise_key_event.
UnicodeKeys == {0, 33, 65, 97, 122, 126, 127, WXK_SPACE, WXK_CONTROL}
KeyCodes == {13, 65, WXK_SPACE, WXK_SHIFT, WXK_ALT, WXK_CONTROL,
             WXK_PAGEUP, WXK_PAGEDOWN}
WheelRotations == {-120, 0, 120}
MouseEventTypes ==
    {"EVT_LEFT_DOWN", "EVT_LEFT_UP", "EVT_MIDDLE_DOWN", "EVT_MIDDLE_UP",
     "EVT_RIGHT_DOWN", "EVT_RIGHT_UP", "EVT_MOUSEWHEEL", "EVT_MOTION"}

KeyEvents ==
    [cls : {"KeyEvent"}, unicode : UnicodeKeys, keycode : KeyCodes,
     ctrl : BOOLEAN, shift : BOOLEAN, alt : BOOLEAN,
     type : {"EVT_KEY_DOWN"}, wheel : {0}]
MouseEvents ==
    [cls : {"MouseEvent"}, unicode : {0}, keycode : {0},
     ctrl : {FALSE}, shift : {FALSE}, alt : {FALSE},
     type : MouseEventTypes, wheel : WheelRotations]
NoEvent ==
    [cls |-> "none", unicode |-> 0, keycode |-> 0, ctrl |-> FALSE,
     shift |-> FALSE, alt |-> FALSE, type |-> "", wheel |-> 0]

KeyIdle == evt = NoEvent /\ key_result = NoBinding

OnKeyEvent ==
    /\ \E e \in KeyEvents :
          /\ evt' = e
          /\ key_result' = serialise_key_event(e)
    /\ UNCHANGED <<buttonVars, nbtVars, selectVars, gotoVars>>

OnMouseEvent ==
    /\ \E e \in MouseEvents :
          /\ evt' = e
          /\ key_result' = serialise_key_event(e)
    /\ UNCHANGED <<buttonVars, nbtVars, selectVars, gotoVars>>

(***************************************************************************)
(* select.py: MovementButton                                               *)
(***************************************************************************)

ACT_BOX_CLICK == "ACT_BOX_CLICK"
ACT_MOVE_UP == "ACT_MOVE_UP"
ACT_MOVE_DOWN == "ACT_MOVE_DOWN"
ACT_MOVE_FORWARDS == "ACT_MOVE_FORWARDS"
ACT_MOVE_BACKWARDS == "ACT_MOVE_BACKWARDS"
ACT_MOVE_LEFT == "ACT_MOVE_LEFT"
ACT_MOVE_RIGHT == "ACT_MOVE_RIGHT"

_MoveActions ==
    {ACT_MOVE_UP, ACT_MOVE_DOWN, ACT_MOVE_FORWARDS, ACT_MOVE_BACKWARDS,
     ACT_MOVE_LEFT, ACT_MOVE_RIGHT}

\* The actions registered with the button's ButtonInput (its keybinds).
ButtonActions == _MoveActions \cup {ACT_BOX_CLICK}

\* The value MovementButton.__init__ gives _timeout, and _on_down gives it again.
TimeoutStart == 10

Abs(n) == IF n < 0 THEN 0 - n ELSE n

\* math.sin and math.cos of an angle in degrees, times 1000, for the multiples
\* of 15 degrees.
SinQ == (0 :> 0) @@ (15 :> 259) @@ (30 :> 500) @@ (45 :> 707)
        @@ (60 :> 866) @@ (75 :> 966) @@ (90 :> 1000)
Sin1000(deg) ==
    LET d == deg % 360
    IN  IF d <= 90 THEN SinQ[d]
        ELSE IF d <= 180 THEN SinQ[180 - d]
        ELSE IF d <= 270 THEN 0 - SinQ[d - 180]
        ELSE 0 - SinQ[360 - d]
Cos1000(deg) == Sin1000(deg + 90)

\* rotation_matrix_xy(0, a) applied to (x, y, z, 0), times 1000: with no pitch
\* it is the rotation by a about the vertical axis.
rotation_matrix_xy_0(a, v) ==
    << v[1] * Cos1000(a) + v[3] * Sin1000(a),
       v[2] * 1000,
       v[3] * Cos1000(a) - v[1] * Sin1000(a) >>

\* numpy.round of v / 1000.  A value the table puts exactly half way between two
\* integers is, in floating point, a little above or below it: either neighbour
\* may come out.
NumpyRound(v) == {r \in (0 - 2)..2 : 2 * Abs(1000 * r - v) <= 1000}

\* .astype(int) alone: truncation towards zero.
AsTypeInt(v) == {IF v >= 0 THEN v \div 1000 ELSE 0 - ((0 - v) \div 1000)}

_rotate_truncating(offset, ry) ==
    LET m == rotation_matrix_xy_0(0 - ry, offset)
    IN  {<<x, y, z>> : x \in AsTypeInt(m[1]), y \in AsTypeInt(m[2]),
                       z \in AsTypeInt(m[3])}

\* MovementButton._rotate: the offsets it may return for a camera yaw of ry.
_rotate(offset, ry) ==
    LET m == rotation_matrix_xy_0(0 - ry, offset)
    IN  {<<x, y, z>> : x \in NumpyRound(m[1]), y \in NumpyRound(m[2]),
                       z \in NumpyRound(m[3])}

\* The camera yaws of the model: the multiples of 15 degrees of a full turn in
\* either direction.
Yaws == {15 * k : k \in (0 - 12)..23}

NotMoved == [called |-> FALSE, input |-> <<0, 0, 0>>, offset |-> <<0, 0, 0>>]

\* The offset _on_held reads from the held actions.
HeldOffset(action_ids) ==
    << (IF ACT_MOVE_LEFT \in action_ids THEN 1 ELSE 0)
         - (IF ACT_MOVE_RIGHT \in action_ids THEN 1 ELSE 0),
       (IF ACT_MOVE_UP \in action_ids THEN 1 ELSE 0)
         - (IF ACT_MOVE_DOWN \in action_ids THEN 1 ELSE 0),
       (IF ACT_MOVE_FORWARDS \in action_ids THEN 1 ELSE 0)
         - (IF ACT_MOVE_BACKWARDS \in action_ids THEN 1 ELSE 0) >>

ButtonIdle ==
    /\ _listen = FALSE
    /\ _timeout = TimeoutStart
    /\ yaw = 0
    /\ moved = NotMoved
    /\ box_click = "none"

\* EVT_INPUT_PRESS
_on_down ==
    /\ \E action_id \in ButtonActions :
          /\ _listen' = IF action_id = ACT_BOX_CLICK THEN TRUE ELSE _listen
          /\ _timeout' = IF action_id # ACT_BOX_CLICK /\ action_id \in _MoveActions
                         THEN TimeoutStart ELSE _timeout
          /\ box_click' = IF action_id = ACT_BOX_CLICK THEN "press" ELSE box_click
    /\ moved' = NotMoved
    /\ UNCHANGED <<yaw, keyVars, nbtVars, selectVars, gotoVars>>

_on_up_keeps_listening ==
    /\ \E action_id \in ButtonActions :
          box_click' = IF action_id = ACT_BOX_CLICK THEN "release" ELSE box_click
    /\ moved' = NotMoved
    /\ UNCHANGED <<_listen, _timeout, yaw, keyVars, nbtVars, selectVars, gotoVars>>

\* EVT_INPUT_RELEASE
_on_up ==
    /\ \E action_id \in ButtonActions :
          /\ _listen' = IF action_id = ACT_BOX_CLICK THEN FALSE ELSE _listen
          /\ box_click' = IF action_id = ACT_BOX_CLICK THEN "release" ELSE box_click
    /\ moved' = NotMoved
    /\ UNCHANGED <<_timeout, yaw, keyVars, nbtVars, selectVars, gotoVars>>

\* EVT_INPUT_HELD
_on_held ==
    /\ \E action_ids \in SUBSET ButtonActions :
          LET offset == HeldOffset(action_ids)
          IN  IF _listen
              THEN /\ IF (_timeout = 0 \/ _timeout = TimeoutStart)
                         /\ offset # <<0, 0, 0>>
                      THEN \E r \in _rotate(offset, yaw) :
                              moved' = [called |-> TRUE, input |-> offset,
                                        offset |-> r]
                      ELSE moved' = NotMoved
                   /\ _timeout' = IF _timeout # 0 THEN _timeout - 1 ELSE _timeout
              ELSE /\ moved' = NotMoved
                   /\ _timeout' = _timeout
    /\ UNCHANGED <<_listen, yaw, box_click, keyVars, nbtVars, selectVars, gotoVars>>

\* The host application turns the camera.
CameraTurn ==
    /\ \E ry \in Yaws : yaw' = ry
    /\ moved' = NotMoved
    /\ UNCHANGED <<_listen, _timeout, box_click, keyVars, nbtVars, selectVars, gotoVars>>

(***************************************************************************)
(* select.py: the three buttons that move the selection                    *)
(***************************************************************************)

\* The largest coordinate, in size, of a selection point in the model.
MaxCoord == 1

Coords == (0 - MaxCoord)..MaxCoord
Points == Coords \X Coords \X Coords

\* The offsets a held button hands to _move: what _rotate returns for the
\* non-zero offsets of the held actions, over the camera yaws.
RotatedOffsets ==
    UNION {_rotate(HeldOffset(action_ids), ry) :
               action_ids \in {a \in SUBSET _MoveActions :
                                  HeldOffset(a) # <<0, 0, 0>>},
               ry \in Yaws}

Point1MoveButton_move_both(positions, offset) ==
    << << positions[1][1] + offset[1], positions[1][2] + offset[2],
          positions[1][3] + offset[3] >>,
       << positions[2][1] + offset[1], positions[2][2] + offset[2],
          positions[2][3] + offset[3] >> >>

\* Point1MoveButton._move: the value it assigns to active_block_positions.
Point1MoveButton_move(positions, offset) ==
    << << positions[1][1] + offset[1], positions[1][2] + offset[2],
          positions[1][3] + offset[3] >>,
       positions[2] >>

\* Point2MoveButton._move
Point2MoveButton_move(positions, offset) ==
    << positions[1],
       << positions[2][1] + offset[1], positions[2][2] + offset[2],
          positions[2][3] + offset[3] >> >>

\* SelectionMoveButton._move
SelectionMoveButton_move(positions, offset) ==
    << << positions[1][1] + offset[1], positions[1][2] + offset[2],
          positions[1][3] + offset[3] >>,
       << positions[2][1] + offset[1], positions[2][2] + offset[2],
          positions[2][3] + offset[3] >> >>

MoveEvt(handler, offset) == [handler |-> handler, offset |-> offset]
NoMove == MoveEvt("none", <<0, 0, 0>>)

\* The selection before any handler of the tool ran.
SelectIdle ==
    /\ active_block_positions = << <<0, 0, 0>>, <<0, 0, 0>> >>
    /\ move_evt = NoMove

InBox(positions) == positions[1] \in Points /\ positions[2] \in Points

\* A held Point1MoveButton whose _on_held reaches self._move(self._rotate(..)).
Point1Move ==
    /\ \E offset \in RotatedOffsets :
          /\ InBox(Point1MoveButton_move(active_block_positions, offset))
          /\ active_block_positions'
                = Point1MoveButton_move(active_block_positions, offset)
          /\ move_evt' = MoveEvt("Point1MoveButton", offset)
    /\ UNCHANGED <<keyVars, buttonVars, nbtVars, gotoVars>>

Point2Move ==
    /\ \E offset \in RotatedOffsets :
          /\ InBox(Point2MoveButton_move(active_block_positions, offset))
          /\ active_block_positions'
                = Point2MoveButton_move(active_block_positions, offset)
          /\ move_evt' = MoveEvt("Point2MoveButton", offset)
    /\ UNCHANGED <<keyVars, buttonVars, nbtVars, gotoVars>>

SelectionMove ==
    /\ \E offset \in RotatedOffsets :
          /\ InBox(SelectionMoveButton_move(active_block_positions, offset))
          /\ active_block_positions'
                = SelectionMoveButton_move(active_block_positions, offset)
          /\ move_evt' = MoveEvt("SelectionMoveButton", offset)
    /\ UNCHANGED <<keyVars, buttonVars, nbtVars, gotoVars>>

\* The boxes typed into the tool's six coordinate inputs.
BoxInputs ==
    { << <<0, 0, 0>>, <<0, 0, 0>> >>,
      << <<0, 0, 0>>, <<1, 0, 1>> >>,
      << <<1, 1, 1>>, <<0 - 1, 0, 1>> >> }

\* SelectTool._box_input_change
_box_input_change ==
    /\ \E positions \in BoxInputs : active_block_positions' = positions
    /\ move_evt' = MoveEvt("_box_input_change", <<0, 0, 0>>)
    /\ UNCHANGED <<keyVars, buttonVars, nbtVars, gotoVars>>

(***************************************************************************)
(* goto.py: the coordinate dialog                                          *)
(***************************************************************************)

\* Text is a sequence of one-character strings.
WhiteSpace == {" ", "\t", "\n"}                       \* some of what \s matches
Digits == <<"0", "1", "2", "3", "4", "5", "6", "7", "8", "9">>
DigitChars == {Digits[k] : k \in DOMAIN Digits}       \* [0-9]

\* The index of the first character of text at or after i that is not in
\* chars, Len(text) + 1 when there is none: where a greedy chars* stops.
RECURSIVE SkipOver(_, _, _)
SkipOver(text, i, chars) ==
    IF i <= Len(text) /\ text[i] \in chars
    THEN SkipOver(text, i + 1, chars)
    ELSE i

\* -?[0-9]+\.?[0-9]* matched at i: the index after the match, 0 for no match.
\* What follows a number in CoordRegex starts with a comma or white space or is
\* the end of the text, so no shorter match than the greedy one can succeed.
MatchNumber(text, i) ==
    LET a == IF i <= Len(text) /\ text[i] = "-" THEN i + 1 ELSE i
        b == SkipOver(text, a, DigitChars)
        c == IF b <= Len(text) /\ text[b] = "." THEN b + 1 ELSE b
    IN  IF b = a THEN 0 ELSE SkipOver(text, c, DigitChars)

\* ((?:,\s*)|(?:\s+)) matched at i: the index after the match, 0 for no match.
MatchSeparator(text, i) ==
    IF i <= Len(text) /\ text[i] = ","
    THEN SkipOver(text, i + 1, WhiteSpace)
    ELSE LET j == SkipOver(text, i, WhiteSpace)
         IN  IF j = i THEN 0 ELSE j

NoMatch == [match |-> FALSE, x |-> <<>>, y |-> <<>>, z |-> <<>>]

\* CoordRegex.fullmatch(text): whether it matches, and the groups x, y and z.
CoordRegex_fullmatch(text) ==
    LET x0 == SkipOver(text, 1, WhiteSpace)
        x1 == MatchNumber(text, x0)
        y0 == IF x1 = 0 THEN 0 ELSE MatchSeparator(text, x1)
        y1 == IF y0 = 0 THEN 0 ELSE MatchNumber(text, y0)
        z0 == IF y1 = 0 THEN 0 ELSE MatchSeparator(text, y1)
        z1 == IF z0 = 0 THEN 0 ELSE MatchNumber(text, z0)
        t0 == IF z1 <= Len(text) /\ text[z1] = "," THEN z1 + 1 ELSE z1
    IN  IF z1 # 0 /\ SkipOver(text, t0, WhiteSpace) = Len(text) + 1
        THEN [match |-> TRUE, x |-> SubSeq(text, x0, x1 - 1),
              y |-> SubSeq(text, y0, y1 - 1), z |-> SubSeq(text, z0, z1 - 1)]
        ELSE NoMatch

\* A float, to three decimal places: sign, whole part and thousandths.
Float(neg, whole, frac) ==
    [neg |-> neg /\ (whole # 0 \/ frac # 0), whole |-> whole, frac |-> frac]

RECURSIVE IntOf(_)
IntOf(digits) ==
    IF digits = <<>> THEN 0
    ELSE IntOf(SubSeq(digits, 1, Len(digits) - 1)) * 10
         + (CHOOSE d \in 0..9 : Digits[d + 1] = digits[Len(digits)])

\* float(group) for a group CoordRegex matched.
float(chars) ==
    LET neg == chars[1] = "-"
        body == IF neg THEN Tail(chars) ELSE chars
        dot == SkipOver(body, 1, DigitChars)
        decimals == SubSeq(body, dot + 1, Len(body)) \o <<"0", "0", "0">>
    IN  Float(neg, IntOf(SubSeq(body, 1, dot - 1)), IntOf(SubSeq(decimals, 1, 3)))

\* The range of the dialog's three wx.SpinCtrlDouble.
SpinMax == 30000000

\* The value to the control's two digits (SetDigits(2)).  A value half way
\* between two of them is, as a float, a little to one side: either may come out.
Round2(v) ==
    LET q == v.frac \div 10
        r == v.frac % 10
        up == IF q = 99 THEN Float(v.neg, v.whole + 1, 0)
              ELSE Float(v.neg, v.whole, (q + 1) * 10)
        down == Float(v.neg, v.whole, q * 10)
    IN  IF r < 5 THEN {down} ELSE IF r > 5 THEN {up} ELSE {down, up}

\* wx.SpinCtrlDouble.SetValue(v) on a control that holds cur: the values the
\* control may hold after it.  The control keeps its value within its range;
\* a value outside it is, by the port and version of wx, refused or brought to
\* the nearest end of the range.
SetValue(cur, v, out_of_range) ==
    {IF r.whole < SpinMax \/ (r.whole = SpinMax /\ r.frac = 0) THEN r
     ELSE IF out_of_range = "refused" THEN cur
     ELSE Float(r.neg, SpinMax, 0) : r \in Round2(v)}

RECURSIVE DigitsOf(_)
DigitsOf(n) ==
    IF n < 10 THEN <<Digits[n + 1]>>
    ELSE DigitsOf(n \div 10) \o <<Digits[(n % 10) + 1]>>

\* "{}".format(round(v, 5)): Python's repr of the float.
FormatFloat(v) ==
    LET d1 == <<Digits[(v.frac \div 100) + 1]>>
        d2 == <<Digits[((v.frac \div 10) % 10) + 1]>>
        d3 == <<Digits[(v.frac % 10) + 1]>>
    IN  (IF v.neg THEN <<"-">> ELSE <<>>) \o DigitsOf(v.whole) \o <<".">>
        \o (IF v.frac % 10 # 0 THEN d1 \o d2 \o d3
            ELSE IF v.frac % 100 # 0 THEN d1 \o d2
            ELSE d1)

\* What the clipboard holds: text, written in its parts (white space, numbers,
\* separators, an end), or something that is not text.
ClipData(is_text, lead, nums, seps, trail) ==
    [is_text |-> is_text, lead |-> lead, nums |-> nums, seps |-> seps,
     trail |-> trail]
NotText == ClipData(FALSE, <<>>, <<>>, <<>>, <<>>)

RECURSIVE Joined(_, _)
Joined(nums, seps) ==
    IF Len(nums) <= 1 THEN (IF nums = <<>> THEN <<>> ELSE nums[1])
    ELSE nums[1] \o seps[1] \o Joined(Tail(nums), Tail(seps))

\* text_data.GetText()
GetText(c) == c.lead \o Joined(c.nums, c.seps) \o c.trail

\* The clipboard contents of the model.
MaxNumbers == 4
LeadTexts == {<<>>, <<" ">>}
NumberTexts ==
    << {<<"1">>, <<"-", "2", ".", "5">>, <<"1", ".", "2", "3", "4">>,
        <<"4", "0", "0", "0", "0", "0", "0", "0">>,
        <<".", "5">>, <<"1", "e", "3">>, <<"-">>},
       {<<"-", "2", ".", "5">>, <<"x">>},
       {<<"3", ".">>, <<"-", "4", "0", "0", "0", "0", "0", "0", "0">>},
       {<<"1">>} >>
SeparatorTexts == {<<",">>, <<",", " ">>, <<" ", "\n">>, <<" ", ",">>}
TrailTexts == {<<>>, <<",">>, <<",", " ">>, <<" ", ",">>}
Clipboards ==
    {NotText, ClipData(TRUE, <<>>, <<>>, <<>>, <<>>)}
    \cup UNION {
        {ClipData(TRUE, lead, nums, seps, trail) :
             lead \in LeadTexts,
             nums \in {f \in [1..n -> UNION {NumberTexts[k] : k \in 1..MaxNumbers}] :
                          \A k \in 1..n : f[k] \in NumberTexts[k]},
             seps \in [1..(n - 1) -> SeparatorTexts],
             trail \in TrailTexts} : n \in 1..MaxNumbers}

TextEvt(ctrl, code, opened, skipped) ==
    [ctrl |-> ctrl, code |-> code, opened |-> opened, skipped |-> skipped]

\* The dialog as GoTo.__init__ leaves it, opened on the start (0, 0, 0).
GoToIdle ==
    /\ location = [k \in 1..3 |-> Float(FALSE, 0, 0)]
    /\ clipboard = NotText
    /\ text_evt = TextEvt(FALSE, 0, FALSE, FALSE)

\* The key codes of the EVT_CHAR events of the model: Ctrl+C, Ctrl+V, "a".
CharCodes == {3, 22, 97}

\* GoTo._on_text
_on_text ==
    \E ctrl \in BOOLEAN, code \in CharCodes, opened \in BOOLEAN,
       out_of_range \in {"refused", "limited"} :
        IF ctrl /\ code = 3
        THEN /\ clipboard' =
                   IF opened
                   THEN ClipData(TRUE, <<>>,
                                 [k \in 1..3 |-> FormatFloat(location[k])],
                                 <<<<" ">>, <<" ">>>>, <<>>)
                   ELSE clipboard
             /\ text_evt' = TextEvt(ctrl, code, opened, FALSE)
             /\ UNCHANGED <<location, keyVars, buttonVars, nbtVars, selectVars>>
        ELSE IF ctrl /\ code = 22
        THEN LET text == IF opened /\ clipboard.is_text
                         THEN GetText(clipboard) ELSE <<>>
                 match == CoordRegex_fullmatch(text)
             IN  /\ IF match.match
                    THEN /\ \E vx \in SetValue(location[1], float(match.x), out_of_range),
                               vy \in SetValue(location[2], float(match.y), out_of_range),
                               vz \in SetValue(location[3], float(match.z), out_of_range) :
                                location' = <<vx, vy, vz>>
                         /\ text_evt' = TextEvt(ctrl, code, opened, FALSE)
                    ELSE /\ location' = location
                         /\ text_evt' = TextEvt(ctrl, code, opened, TRUE)
                 /\ UNCHANGED <<clipboard, keyVars, buttonVars, nbtVars, selectVars>>
        ELSE /\ text_evt' = TextEvt(ctrl, code, opened, TRUE)
             /\ UNCHANGED <<location, clipboard, keyVars, buttonVars, nbtVars,
                            selectVars>>

(***************************************************************************)
(* nbt_editor.py: NBT documents, the ParsedNBT objects, parse_nbt and       *)
(* build_nbt                                                               *)
(***************************************************************************)

\* Bounds of the model.
MaxWidth == 2       \* entries of a compound and elements of a list in a document
MaxDialogs == 2     \* dialogs open at the same time

TAG_Byte == "TAG_Byte"
TAG_String == "TAG_String"
TAG_Compound == "TAG_Compound"
TAG_List == "TAG_List"
ScalarTypes == {TAG_Byte, TAG_String}
ContainerTypes == {TAG_List, TAG_Compound}

\* Python's None, as a reference to a ParsedNBT object.
None == 0

\* A tag's Python value: an int or a str.
IntVal(n) == [k |-> "int", i |-> n, s |-> ""]
StrVal(str) == [k |-> "str", i |-> 0, s |-> str]

\* An NBT object of the amulet_nbt library: its class, its .value when it is a
\* scalar, and its entries in order when it is a compound (name, tag) or a
\* list (tag; the name is not used).
NbtTag(t, v, e) == [t |-> t, v |-> v, e |-> e]
NbtScalar(t, v) == NbtTag(t, v, <<>>)
NbtContainer(t, e) == NbtTag(t, IntVal(0), e)
Entry(n, d) == [n |-> n, d |-> d]

\* isinstance(value, MutableMapping), isinstance(value, MutableSequence)
IsMutableMapping(d) == d.t = TAG_Compound
IsMutableSequence(d) == d.t = TAG_List

\* The documents of the model, by nesting depth: scalars and empty containers,
\* then containers of those, then the compound passed to the editor.
DocNames == {"a", "b"}
DocScalars == {NbtScalar(TAG_Byte, IntVal(1)), NbtScalar(TAG_Byte, IntVal(2)),
               NbtScalar(TAG_String, StrVal("x"))}
SeqsUpTo(S, n) == UNION {[1..k -> S] : k \in 0..n}
\* a compound's entries have distinct names; a list's elements have one class
CompoundsOver(S) ==
    {NbtContainer(TAG_Compound, e) :
        e \in {q \in SeqsUpTo([n : DocNames, d : S], MaxWidth) :
                 \A i, j \in DOMAIN q : i # j => q[i].n # q[j].n}}
ListsOver(S) ==
    {NbtContainer(TAG_List, e) :
        e \in {q \in SeqsUpTo([n : {""}, d : S], MaxWidth) :
                 \A i, j \in DOMAIN q : q[i].d.t = q[j].d.t}}
Depth0 == DocScalars \cup {NbtContainer(TAG_Compound, <<>>),
                           NbtContainer(TAG_List, <<>>)}
Depth1 == Depth0 \cup CompoundsOver(Depth0) \cup ListsOver(Depth0)
Docs == CompoundsOver(Depth1)

\* ParsedNBTValue.__init__ and ParsedNBTContainer.__init__
ParsedNBTValue(parent, name, value, type) ==
    [container |-> FALSE, parent |-> parent, name |-> name, value |-> value,
     type |-> type, children |-> <<>>]
ParsedNBTContainer(parent, name, type) ==
    [container |-> TRUE, parent |-> parent, name |-> name, value |-> IntVal(0),
     type |-> type, children |-> <<>>]

\* The state parse_nbt works on: the objects created so far, and the exception
\* that ended it ("" for none).  A new object's reference is its place in the heap.
Running(h) == [heap |-> h, err |-> ""]
New(S, obj) == IF S.err # "" THEN S ELSE [S EXCEPT !.heap = Append(@, obj)]
Raise(S, exc) == IF S.err # "" THEN S ELSE [S EXCEPT !.err = exc]

\* ParsedNBTContainer.add_child on heap h
add_child(h, parent, child) ==
    [h EXCEPT ![parent].children = Append(@, child)]

\* parent.add_child(child) as a statement of parse_nbt
AddChildStmt(S, parent, child) ==
    IF S.err # "" THEN S
    ELSE IF parent = None \/ ~S.heap[parent].container
         THEN Raise(S, "AttributeError")
         ELSE [S EXCEPT !.heap = add_child(@, parent, child)]

RECURSIVE parse_nbt(_, _, _)
RECURSIVE parse_nbt_items(_, _, _, _)
RECURSIVE parse_nbt_item(_, _, _, _)
RECURSIVE parse_nbt_list(_, _, _, _)

\* parse_nbt(_nbt, parent): _nbt.items() exists on a mapping only
parse_nbt(S, _nbt, parent) ==
    IF S.err # "" THEN S
    ELSE IF ~IsMutableMapping(_nbt) THEN Raise(S, "AttributeError")
    ELSE parse_nbt_items(S, _nbt.e, 1, parent)

\* the loop "for key, value in _nbt.items()", from entry k on
parse_nbt_items(S, items, k, parent) ==
    IF S.err # "" \/ k > Len(items) THEN S
    ELSE parse_nbt_items(parse_nbt_item(S, items[k].n, items[k].d, parent),
                         items, k + 1, parent)

\* the body of that loop
parse_nbt_item(S, key, value, parent) ==
    IF IsMutableMapping(value)
    THEN LET S1 == New(S, ParsedNBTContainer(parent, key, value.t))
             new_parent == Len(S1.heap)
         IN  AddChildStmt(parse_nbt(S1, value, new_parent), parent, new_parent)
    ELSE IF IsMutableSequence(value)
    THEN LET S1 == New(S, ParsedNBTContainer(parent, key, value.t))
             new_parent == Len(S1.heap)
         IN  AddChildStmt(parse_nbt_list(S1, value.e, 1, new_parent),
                          parent, new_parent)
    ELSE IF parent # None
         THEN LET S1 == New(S, ParsedNBTValue(parent, key, value.v, value.t))
              IN  AddChildStmt(S1, parent, Len(S1.heap))
         ELSE S  \* "Found orphaned NBT" is printed

\* the loop "for child in value" over a list, from element k on
parse_nbt_list(S, value, k, new_parent) ==
    IF S.err # "" \/ k > Len(value) THEN S
    ELSE LET child == value[k].d
             S2 == IF IsMutableMapping(child) \/ IsMutableSequence(child)
                   THEN LET S1 == New(S, ParsedNBTContainer(new_parent, "", child.t))
                            new_new_parent == Len(S1.heap)
                        IN  AddChildStmt(parse_nbt(S1, child, new_new_parent),
                                         new_parent, new_new_parent)
                   ELSE LET S1 == New(S, ParsedNBTValue(new_parent, "", child.v,
                                                        child.t))
                        IN  AddChildStmt(S1, new_parent, Len(S1.heap))
         IN  parse_nbt_list(S2, value, k + 1, new_parent)

\* container[name] = tag on a compound: an existing name keeps its place
SetItem(e, name, tag) ==
    IF \E k \in DOMAIN e : e[k].n = name
    THEN [k \in DOMAIN e |-> IF e[k].n = name THEN Entry(name, tag) ELSE e[k]]
    ELSE Append(e, Entry(name, tag))

RECURSIVE build_nbt(_, _)
RECURSIVE build_nbt_children(_, _, _, _)

\* ParsedNBTValue.build_nbt and ParsedNBTContainer.build_nbt
build_nbt(h, self) ==
    IF h[self].container
    THEN NbtContainer(h[self].type, build_nbt_children(h, self, 1, <<>>))
    ELSE NbtScalar(h[self].type, h[self].value)

\* the loops "for child in self._children", from child k on
build_nbt_children(h, self, k, container) ==
    IF k > Len(h[self].children) THEN container
    ELSE LET child == h[self].children[k]
         IN  build_nbt_children(h, self, k + 1,
                 IF h[self].type = TAG_Compound
                 THEN SetItem(container, h[child].name, build_nbt(h, child))
                 ELSE Append(container, Entry("", build_nbt(h, child))))

(***************************************************************************)
(* nbt_editor.py: NBTEditor                                                *)
(***************************************************************************)

\* An NBT object with its identity: oid tells two objects of equal content
\* apart.  None is no object.
NbtObject(oid, tag) == [oid |-> oid, tag |-> tag]
NoNbt == NbtObject(None, NbtContainer(TAG_Compound, <<>>))

\* copy.deepcopy(nbt_data): an equal object that is not nbt_data
deepcopy(obj) == NbtObject(obj.oid + 1, obj.tag)

\* The text of a text field: empty, a decimal integer, or a bare word.
EmptyText == [k |-> "empty", i |-> 0, s |-> ""]
IntText(n) == [k |-> "int", i |-> n, s |-> ""]
WordText(w) == [k |-> "word", i |-> 0, s |-> w]
\* the text as a Python str
TextStr(t) == IF t.k = "int" THEN ToString(t.i) ELSE t.s

\* What a handler did: which handler, on which ParsedNBT object, how it ended
\* ("ok", "message" for a wx.MessageBox and return, or the exception that left
\* it), whether the save callback was called, whether the value came from the
\* SyntaxError fallback, and the tag type and field texts a Save read.  For a
\* handler reached through the context menu, clicked is the tag of the item
\* that was right-clicked (item is the tag of the focused one).
Outcome(op, item, result, callback, fallback, type, name, text) ==
    [op |-> op, item |-> item, result |-> result, callback |-> callback,
     fallback |-> fallback, type |-> type, name |-> name, text |-> text,
     clicked |-> None]
Did(op, item) == Outcome(op, item, "ok", FALSE, FALSE, "", "", EmptyText)
Chose(op, clicked, focused) == [Did(op, focused) EXCEPT !.clicked = clicked]

\* The root container NBTEditor.__init__ creates, self._parent.
Root == 1

\* NBTEditor.__init__: the ParsedNBT objects after
\*   self._parent = ParsedNBTContainer(None, "", nbt.TAG_Compound)
\*   parse_nbt(deepcopy(nbt_data), self._parent)
NBTEditor_init(data) ==
    parse_nbt(Running(<<ParsedNBTContainer(None, "", TAG_Compound)>>),
              deepcopy(data).tag, Root)

\* The tags below a ParsedNBT object, itself included.
RECURSIVE Subtree(_, _)
Subtree(h, id) ==
    {id} \cup UNION {Subtree(h, h[id].children[k]) : k \in DOMAIN h[id].children}

\* The tags that have an item in the wx.TreeCtrl: _build_tree and
\* _build_sub_tree make one for every tag below self._parent.
TreeItems(h) == Subtree(h, Root) \ {Root}

\* An item of the wx.TreeCtrl: the ParsedNBT object it carries as item data
\* (SetItemData) and the item it hangs under.  An item is identified by the
\* tag it carries.  NoItem is the invalid wx.TreeItemId, which GetItemParent
\* returns for a top-level item.
NoItem == None
TreeItem(data, parent) == [data |-> data, parent |-> parent]
\* What a run of calls on the tree gives: the items, and the exception that
\* ended the run ("" for none).
TreeResult(items, err) == [items |-> items, err |-> err]

\* the tags that have an item, and tree.GetItemParent
ItemIds(t) == {i.data : i \in t}
GetItemParent(t, item) ==
    IF item \in ItemIds(t) THEN (CHOOSE i \in t : i.data = item).parent ELSE item

\* the items below an item; below NoItem, every item
RECURSIVE ItemsBelow(_, _)
ItemsBelow(t, item) ==
    LET kids == {i \in t : i.parent = item}
    IN  kids \cup UNION {ItemsBelow(t, i.data) : i \in kids}

\* NBTEditor._build_sub_tree: an item under tree_parent for every child of
\* nbt_parent, and for a container child its own sub tree.  The order of the
\* items (sorted by name) is not kept.
RECURSIVE _build_sub_tree(_, _, _)
_build_sub_tree(h, tree_parent, nbt_parent) ==
    LET children == h[nbt_parent].children
    IN  UNION {{TreeItem(children[k], tree_parent)} \cup
               (IF h[children[k]].container
                THEN _build_sub_tree(h, children[k], children[k])
                ELSE {})
               : k \in DOMAIN children}

\* NBTEditor._build_tree, from the k-th top-level tag on, T being the result so
\* far.  It calls AddRoot for every top-level tag and _build_sub_tree on each
\* of them, container or not: a ParsedNBTValue has no children, and reading
\* them raises AttributeError.  A second AddRoot is outside what wx.TreeCtrl
\* promises: the native Windows control adds a second top-level item, the
\* generic control fails its check "tree can have only one root", which
\* wxPython raises as wxAssertionError.  The result is the set of the outcomes.
RECURSIVE _build_tree_from(_, _, _, _)
_build_tree_from(h, roots, k, T) ==
    IF k > Len(roots) THEN {T}
    ELSE LET root_nbt == roots[k]
             added == T.items \cup {TreeItem(root_nbt, NoItem)}
             built == IF h[root_nbt].container
                      THEN TreeResult(added \cup _build_sub_tree(h, root_nbt, root_nbt), "")
                      ELSE TreeResult(added, "AttributeError")
             go == IF built.err = "" THEN _build_tree_from(h, roots, k + 1, built)
                   ELSE {built}
         IN  IF k = 1 THEN go
             ELSE go \cup {TreeResult(T.items, "wxAssertionError")}

_build_tree(h, parsed_nbt) ==
    _build_tree_from(h, h[parsed_nbt].children, 1, TreeResult({}, ""))

\* How the save callbacks and _delete_tag end:
\*   self.tree.DeleteChildren(parent_element)
\*   self._build_sub_tree(parent_element, parent_tag)
\* With the invalid item (the parent of a top-level item) or with a deleted
\* item the calls are outside what wx.TreeCtrl promises: the native Windows
\* control takes the invalid item for the top level and ignores a deleted one,
\* the generic control dereferences it ("crash").
Refresh(t, h, parent_element, parent_tag) ==
    IF parent_element \in ItemIds(t)
    THEN {TreeResult((t \ ItemsBelow(t, parent_element))
                       \cup _build_sub_tree(h, parent_element, parent_tag), "")}
    ELSE IF parent_element = NoItem
    THEN {TreeResult(_build_sub_tree(h, NoItem, parent_tag), ""),
          TreeResult(t, "crash")}
    ELSE {TreeResult(t, ""), TreeResult(t, "crash")}

\* NBTEditor._generate_menu: the entries of the menu, by their names in op_map
_generate_menu(include_add_tag) ==
    IF include_add_tag THEN {"add", "edit", "delete"} ELSE {"edit", "delete"}

\* NBTEditor._tree_right_click on the item that carries parsed_nbt: the menu
\* it pops up
_tree_right_click(h, parsed_nbt) == _generate_menu(h[parsed_nbt].container)

NBTEditorNew ==
    /\ phase = "new"
    /\ heap = <<>>
    /\ tree = {}
    /\ dialogs = EmptyBag
    /\ nbt_out = NoNbt
    /\ last = Did("none", None)

Construct ==
    /\ phase = "new"
    /\ LET S == NBTEditor_init(nbt_data)
       IN  IF S.err = ""
           THEN \E T \in _build_tree(S.heap, Root) :
                   IF T.err = ""
                   THEN /\ phase' = "ready"
                        /\ heap' = S.heap
                        /\ tree' = T.items
                        /\ last' = Did("init", Root)
                   ELSE /\ phase' = "crashed"
                        /\ heap' = heap
                        /\ tree' = tree
                        /\ last' = Outcome("init", None, T.err, FALSE, FALSE, "",
                                           "", EmptyText)
           ELSE /\ phase' = "crashed"
                /\ heap' = heap
                /\ tree' = tree
                /\ last' = Outcome("init", None, S.err, FALSE, FALSE, "", "",
                                   EmptyText)
    /\ UNCHANGED <<nbt_data, dialogs, nbt_out, keyVars, buttonVars, selectVars, gotoVars>>

\* The identity of the next NBT object to be created: one that no object still
\* held has (nbt_data, and the object the last read returned).
NextOid == CHOOSE oid \in 1..3 : oid \notin {nbt_data.oid, nbt_out.oid}
                                 /\ \A o \in 1..(oid - 1) : o \in {nbt_data.oid, nbt_out.oid}

NBTEditor_nbt_cached == nbt_data

\* The property NBTEditor.nbt: self._parent.build_nbt()
NBTEditor_nbt == NbtObject(NextOid, build_nbt(heap, Root))

ReadNbt ==
    /\ phase = "ready"
    /\ nbt_out' = NBTEditor_nbt
    /\ last' = Did("read", Root)
    /\ UNCHANGED <<phase, nbt_data, heap, tree, dialogs, keyVars, buttonVars, selectVars, gotoVars>>

(***************************************************************************)
(* nbt_editor.py: the context menu's handlers and the two dialogs          *)
(***************************************************************************)

MaxAdds == 1        \* tags added to an editor through the Add Tag dialog

\* The texts the model types into the name field of a NewTagDialog and of an
\* EditTagDialog, and into a value field.
NewNameTexts == {"", "b"}
EditNameTexts == {"b"}
ValueTexts == {EmptyText, IntText(2), IntText(200), WordText("x")}
\* The radio buttons of NewTagDialog the model selects; "" is none selected
\* (get_selected_tag_type returns None).
TagTypes == {TAG_Byte, TAG_Compound}

\* The result of an expression that may raise: the exception ("" for none)
\* and the value.
Value(v) == [exc |-> "", val |-> v]
Raised(exc) == [exc |-> exc, val |-> IntVal(0)]

\* ast.literal_eval on the text of a field
literal_eval(text) ==
    IF text.k = "empty" THEN Raised("SyntaxError")
    ELSE IF text.k = "int" THEN Value(IntVal(text.i))
    ELSE Raised("ValueError")

\* tag_type(x).value for a Python value x: TAG_Byte holds a signed byte,
\* TAG_String the str of its argument.
TagValue(tag_type, x) ==
    IF tag_type = TAG_Byte
    THEN IF x.k # "int" THEN Raised("TypeError")
         ELSE IF x.i < 0 - 128 \/ x.i > 127 THEN Raised("OverflowError")
         ELSE Value(x)
    ELSE Value(StrVal(IF x.k = "int" THEN ToString(x.i) ELSE x.s))

\* tag_type().value
DefaultValue(tag_type) == IF tag_type = TAG_Byte THEN IntVal(0) ELSE StrVal("")

\* How the try statement of a _save ends: "ok" with the value, or "message"
\* (a wx.MessageBox, then return).
Accepted(v, fallback) == [result |-> "ok", value |-> v, fallback |-> fallback]
Rejected == [result |-> "message", value |-> IntVal(0), fallback |-> FALSE]

\* NewTagDialog._save, the try statement
NewTagDialog_value(tag_type, text) ==
    LET lit == literal_eval(text)
        v == IF lit.exc = "" THEN TagValue(tag_type, lit.val) ELSE lit
    IN  IF v.exc \in {"ValueError", "OverflowError"} THEN Rejected
        ELSE IF v.exc = "SyntaxError" THEN Accepted(DefaultValue(tag_type), TRUE)
        ELSE Accepted(v.val, FALSE)

EditTagDialog_value_no_return(tag, text) ==
    LET lit == literal_eval(text)
        v == IF tag.type = TAG_String THEN TagValue(tag.type, StrVal(TextStr(text)))
             ELSE IF lit.exc = "" THEN TagValue(tag.type, lit.val) ELSE lit
    IN  IF v.exc \in {"ValueError", "OverflowError", "SyntaxError"}
        THEN Accepted(tag.value, v.exc = "SyntaxError")
        ELSE Accepted(v.val, FALSE)

\* EditTagDialog._save, the try statement; tag is the dialog's copy
EditTagDialog_value(tag, text) ==
    LET lit == literal_eval(text)
        v == IF tag.type = TAG_String THEN TagValue(tag.type, StrVal(TextStr(text)))
             ELSE IF lit.exc = "" THEN TagValue(tag.type, lit.val) ELSE lit
    IN  IF v.exc \in {"ValueError", "OverflowError"} THEN Rejected
        ELSE IF v.exc = "SyntaxError" THEN Accepted(tag.value, TRUE)
        ELSE Accepted(v.val, FALSE)

\* copy(tag): the copy's slots are the original's.  Its list of children is the
\* original's own list, which no dialog reads: the copy holds none here.
copy(obj) == [obj EXCEPT !.children = <<>>]

\* An open NewTagDialog, with the parent_tag its save_callback closed over.
NewTagDialog(parent_tag) ==
    [kind |-> "add", item |-> parent_tag,
     tag |-> copy(ParsedNBTContainer(None, "", TAG_Compound)),
     name_enabled |-> TRUE]

\* An open EditTagDialog on parsed_tag: self.tag, and whether __init__ left the
\* name field enabled.
EditTagDialog(h, parsed_tag) ==
    [kind |-> "edit", item |-> parsed_tag, tag |-> copy(h[parsed_tag]),
     name_enabled |-> h[h[parsed_tag].parent].type # TAG_List]

\* dialog.Show() and self.Close() on the bag of open dialogs
Show(ds, d) == ds (+) SetToBag({d})
Close(ds, d) == ds (-) SetToBag({d})

\* list.remove(x): the list without the first element equal to x
ListRemove(q, x) ==
    IF \E k \in DOMAIN q : q[k] = x
    THEN LET k == CHOOSE k \in DOMAIN q :
                      q[k] = x /\ \A j \in 1..(k - 1) : q[j] # x
         IN  [j \in 1..(Len(q) - 1) |-> IF j < k THEN q[j] ELSE q[j + 1]]
    ELSE q

\* The first child that looks like the given one: same name, class and value.
FirstLookalike(h, q, child) ==
    q[CHOOSE k \in DOMAIN q :
         /\ copy(h[q[k]]) = copy(h[child])
         /\ \A j \in 1..(k - 1) : copy(h[q[j]]) # copy(h[child])]

remove_child_by_content(h, self, child) ==
    [h EXCEPT ![self].children = ListRemove(@, FirstLookalike(h, @, child))]

\* ParsedNBTContainer.remove_child: ParsedNBT defines no __eq__, so list.remove
\* compares by identity
remove_child(h, self, child) ==
    [h EXCEPT ![self].children = ListRemove(@, child)]

\* ParsedNBTValue.remove and ParsedNBTContainer.remove
remove(h, self) ==
    IF h[self].container /\ h[self].parent = None THEN h
    ELSE remove_child(h, h[self].parent, self)

\* ParsedNBTValue.update and ParsedNBTContainer.update
update(h, self, name, value) ==
    IF h[self].container
    THEN [h EXCEPT ![self].name = name]
    ELSE [h EXCEPT ![self].name = name, ![self].value = value]

\* The "Add Tag" entry of the menu _tree_right_click pops up on the clicked
\* item: _popup_menu_handler calls _add_tag, which opens a dialog on the
\* focused item.  wx does not promise that a right click moves the focus: the
\* two items are chosen apart.
_add_tag ==
    /\ phase = "ready"
    /\ BagCardinality(dialogs) < MaxDialogs
    /\ \E clicked \in ItemIds(tree), focused \in ItemIds(tree) :
          /\ "add" \in _tree_right_click(heap, clicked)
          /\ dialogs' = Show(dialogs, NewTagDialog(focused))
          /\ last' = Chose("add", clicked, focused)
    /\ nbt_out' = NoNbt
    /\ UNCHANGED <<phase, nbt_data, heap, tree, keyVars, buttonVars, selectVars, gotoVars>>

\* The "Edit Tag" entry: _edit_tag opens a dialog on the focused item.
_edit_tag ==
    /\ phase = "ready"
    /\ BagCardinality(dialogs) < MaxDialogs
    /\ \E clicked \in ItemIds(tree), focused \in ItemIds(tree) :
          /\ "edit" \in _tree_right_click(heap, clicked)
          /\ dialogs' = Show(dialogs, EditTagDialog(heap, focused))
          /\ last' = Chose("edit", clicked, focused)
    /\ nbt_out' = NoNbt
    /\ UNCHANGED <<phase, nbt_data, heap, tree, keyVars, buttonVars, selectVars, gotoVars>>

\* The "Delete Tag" entry: _delete_tag removes the focused item's tag and
\* builds the items under its parent item again.
_delete_tag ==
    /\ phase = "ready"
    /\ \E clicked \in ItemIds(tree), focused \in ItemIds(tree) :
          /\ "delete" \in _tree_right_click(heap, clicked)
          /\ LET parent_element == GetItemParent(tree, focused)
                 parent_tag == heap[focused].parent
                 removed == remove(heap, focused)
             IN  /\ heap' = removed
                 /\ \E R \in Refresh(tree, removed, parent_element, parent_tag) :
                       /\ tree' = R.items
                       /\ phase' = IF R.err = "" THEN phase ELSE "crashed"
                       /\ last' = [Chose("delete", clicked, focused)
                                     EXCEPT !.result = IF R.err = "" THEN "ok"
                                                       ELSE R.err]
    /\ nbt_out' = NoNbt
    /\ UNCHANGED <<nbt_data, dialogs, keyVars, buttonVars, selectVars, gotoVars>>

\* The Save button of the NewTagDialog d, with the radio button, the name and
\* the value the user left in it.
NewTagDialog_save(d) ==
    /\ phase = "ready"
    /\ d.kind = "add"
    /\ Len(heap) < Len(NBTEditor_init(nbt_data).heap) + MaxAdds
    /\ \E selected_type \in TagTypes \cup {""} :
       \* a field _save returns without reading is left empty
       \E tag_name \in IF selected_type = "" THEN {""} ELSE NewNameTexts :
       \E text \in IF selected_type \in ScalarTypes /\ tag_name # ""
                   THEN ValueTexts ELSE {EmptyText} :
          LET parent_tag == d.item
              v == IF selected_type \in ScalarTypes
                   THEN NewTagDialog_value(selected_type, text)
                   ELSE Accepted(IntVal(0), FALSE)
              new_tag == IF selected_type \in ScalarTypes
                         THEN ParsedNBTValue(None, tag_name, v.value, selected_type)
                         ELSE ParsedNBTContainer(None, tag_name, selected_type)
              out(result, callback) ==
                  Outcome("add_save", parent_tag, result, callback, v.fallback,
                          selected_type, tag_name, text)
              added == add_child(
                           Append(heap, [new_tag EXCEPT !.parent = parent_tag]),
                           parent_tag, Len(heap) + 1)
          IN  IF selected_type = "" \/ tag_name = "" \/ v.result = "message"
              THEN /\ last' = out("message", FALSE)
                   /\ UNCHANGED <<phase, heap, tree, dialogs>>
              ELSE IF ~heap[parent_tag].container
              THEN \* save_callback: a ParsedNBTValue has no add_child
                   /\ last' = out("AttributeError", TRUE)
                   /\ UNCHANGED <<phase, heap, tree, dialogs>>
              ELSE \* parent_element is the item _add_tag found focused
                   \E R \in Refresh(tree, added, parent_tag, parent_tag) :
                      /\ heap' = added
                      /\ tree' = R.items
                      /\ IF R.err = ""
                         THEN /\ dialogs' = Close(dialogs, d)
                              /\ last' = out("ok", TRUE)
                              /\ phase' = phase
                         ELSE /\ dialogs' = dialogs
                              /\ last' = out(R.err, TRUE)
                              /\ phase' = "crashed"
    /\ nbt_out' = NoNbt
    /\ UNCHANGED <<nbt_data, keyVars, buttonVars, selectVars, gotoVars>>

\* The Save button of the EditTagDialog d.  A disabled name field holds the
\* name it was created with.
EditTagDialog_save(d) ==
    /\ phase = "ready"
    /\ d.kind = "edit"
    /\ LET tag == d.tag
           parsed_tag == d.item
       IN
       \E text \in IF tag.type \in ContainerTypes THEN {EmptyText} ELSE ValueTexts :
       \E name \in IF d.name_enabled THEN EditNameTexts ELSE {tag.name} :
          LET v == IF tag.type \in ContainerTypes THEN Accepted(IntVal(0), FALSE)
                   ELSE EditTagDialog_value(tag, text)
              out(result, callback) ==
                  Outcome("edit_save", parsed_tag, result, callback, v.fallback,
                          tag.type, name, text)
              updated == update(heap, parsed_tag, name, v.value)
              \* selected_element is the item _edit_tag found focused
              parent_element == GetItemParent(tree, parsed_tag)
              parent_tag == heap[parsed_tag].parent
          IN  IF v.result = "message"
              THEN /\ last' = out("message", FALSE)
                   /\ UNCHANGED <<phase, heap, tree, dialogs>>
              ELSE IF tag.container
              THEN \* save_callback reads edited_tag.value, which a
                   \* ParsedNBTContainer does not have
                   /\ dialogs' = Show(Close(dialogs, d), [d EXCEPT !.tag.name = name])
                   /\ last' = out("AttributeError", TRUE)
                   /\ UNCHANGED <<phase, heap, tree>>
              ELSE \E R \in Refresh(tree, updated, parent_element, parent_tag) :
                      /\ heap' = updated
                      /\ tree' = R.items
                      /\ IF R.err = ""
                         THEN /\ dialogs' = Close(dialogs, d)
                              /\ last' = out("ok", TRUE)
                              /\ phase' = phase
                         ELSE /\ dialogs' = dialogs
                              /\ last' = out(R.err, TRUE)
                              /\ phase' = "crashed"
    /\ nbt_out' = NoNbt
    /\ UNCHANGED <<nbt_data, keyVars, buttonVars, selectVars, gotoVars>>

\* The Cancel button of the dialog d.
Cancel(d) ==
    /\ phase = "ready"
    /\ dialogs' = Close(dialogs, d)
    /\ last' = Did("cancel", d.item)
    /\ nbt_out' = NoNbt
    /\ UNCHANGED <<phase, nbt_data, heap, tree, keyVars, buttonVars, selectVars, gotoVars>>

(***************************************************************************)
(* Specifications                                                          *)
(***************************************************************************)

\* The identity of the object passed to NBTEditor.__init__.
DataOid == 1

NoEditor == NBTEditorNew /\ nbt_data = NbtObject(DataOid, NbtContainer(TAG_Compound, <<>>))

InitKey == KeyIdle /\ ButtonIdle /\ SelectIdle /\ GoToIdle /\ NoEditor
NextKey == OnKeyEvent \/ OnMouseEvent
SpecKey == InitKey /\ [][NextKey]_vars

InitButton == KeyIdle /\ ButtonIdle /\ SelectIdle /\ GoToIdle /\ NoEditor
NextButton == _on_down \/ _on_up \/ _on_held \/ CameraTurn
SpecButton == InitButton /\ [][NextButton]_vars

InitParse ==
    /\ KeyIdle /\ ButtonIdle /\ SelectIdle /\ GoToIdle /\ NBTEditorNew
    /\ nbt_data \in {NbtObject(DataOid, d) : d \in Docs}
NextParse == Construct \/ ReadNbt
SpecParse == InitParse /\ [][NextParse]_vars

InitGoTo ==
    /\ KeyIdle /\ ButtonIdle /\ SelectIdle /\ NoEditor
    /\ location = [k \in 1..3 |-> Float(FALSE, 0, 0)]
    /\ clipboard \in Clipboards
    /\ text_evt = TextEvt(FALSE, 0, FALSE, FALSE)
NextGoTo == _on_text
SpecGoTo == InitGoTo /\ [][NextGoTo]_vars

InitSelect == InitButton
NextSelect == Point1Move \/ Point2Move \/ SelectionMove \/ _box_input_change
SpecSelect == InitSelect /\ [][NextSelect]_vars

\* The documents an editor is opened on: a list of two equal bytes, and a
\* compound that holds a string.
EditorDocs ==
    {NbtContainer(TAG_Compound,
        <<Entry("a", NbtContainer(TAG_List,
              <<Entry("", NbtScalar(TAG_Byte, IntVal(1))),
                Entry("", NbtScalar(TAG_Byte, IntVal(1)))>>))>>),
     NbtContainer(TAG_Compound,
        <<Entry("a", NbtContainer(TAG_Compound,
              <<Entry("a", NbtScalar(TAG_String, StrVal("x")))>>))>>)}

Init ==
    /\ KeyIdle /\ ButtonIdle /\ SelectIdle /\ GoToIdle /\ NBTEditorNew
    /\ nbt_data \in {NbtObject(DataOid, d) : d \in EditorDocs}
Next ==
    \/ Construct
    \/ _add_tag
    \/ _edit_tag
    \/ _delete_tag
    \/ \E d \in BagToSet(dialogs) : NewTagDialog_save(d)
    \/ \E d \in BagToSet(dialogs) : EditTagDialog_save(d)
    \/ \E d \in BagToSet(dialogs) : Cancel(d)
    \/ ReadNbt
Spec == Init /\ [][Next]_vars

(***************************************************************************)
(* Properties                                                              *)
(***************************************************************************)

Range(f) == {f[x] : x \in DOMAIN f}

\* C1: every document of compounds, lists (of scalars, compounds or lists) and
\* scalars is parsed by NBTEditor.__init__, and NBTEditor.nbt read with no edit
\* in between gives back a compound with the same entries: names, classes,
\* values, nesting and order.
C1_RoundTrip ==
    /\ phase # "crashed"
    /\ (phase = "ready" /\ nbt_out.oid # None) => nbt_out.tag = nbt_data.tag

\* A list that holds a list, at any depth of the document.
RECURSIVE HasListInList(_)
HasListInList(d) ==
    \E k \in DOMAIN d.e :
        \/ IsMutableSequence(d) /\ IsMutableSequence(d.e[k].d)
        \/ HasListInList(d.e[k].d)

\* A document with a top-level entry that is a value tag.
HasTopLevelValue(d) == \E k \in DOMAIN d.e : d.e[k].d.t \in ScalarTypes

\* C1, cut down to what the code does: the round trip holds whenever the
\* constructor returns, which it does for no document with a list inside a
\* list; the constructor ends with AttributeError (in parse_nbt for a list in
\* a list, in _build_tree for a top-level value) or, with two top-level
\* entries, with wxAssertionError.
C1_RoundTripWithoutListInList ==
    /\ (phase = "crashed" /\ last.result = "AttributeError")
          => HasListInList(nbt_data.tag) \/ HasTopLevelValue(nbt_data.tag)
    /\ (phase = "crashed" /\ last.result # "AttributeError")
          => last.result = "wxAssertionError" /\ Len(nbt_data.tag.e) > 1
    /\ phase = "ready" => ~HasListInList(nbt_data.tag)
    /\ (phase = "ready" /\ nbt_out.oid # None) => nbt_out.tag = nbt_data.tag

C1_ListInListCrashes ==
    /\ phase = "crashed"
    /\ nbt_data.tag = NbtContainer(TAG_Compound,
           <<Entry("a", NbtContainer(TAG_List,
                 <<Entry("", NbtContainer(TAG_List, <<>>))>>))>>)

\* C4: a held event calls _move only while the most recent ACT_BOX_CLICK event
\* on the button is a press: never before the first press, never after a
\* release.
C4_MoveOnlyWhilePressed == moved.called => box_click = "press"

C4_MovedWhilePressed == moved.called /\ box_click = "press" /\ _timeout = 0

\* C5: serialise_key_event gives None for the Control key itself and for Shift
\* or Alt with Control down, a (modifiers, key) pair for every other key event,
\* and so no pair with CTRL among its modifiers whose key is SHIFT, ALT or the
\* Control key code.
C5_ControlNeedsRealKey ==
    evt.cls = "KeyEvent" =>
        LET key == EventKey(evt)
            rejected == \/ key = WXK_CONTROL
                        \/ evt.ctrl /\ key \in {WXK_SHIFT, WXK_ALT}
        IN  /\ key_result.none <=> rejected
            /\ (~key_result.none /\ Control \in Range(key_result.modifier))
                  => key_result.key \notin {KeyName(Shift), KeyName(Alt),
                                            KeyCode(WXK_CONTROL)}

C5_ControlShiftRejected ==
    /\ evt.cls = "KeyEvent" /\ evt.ctrl /\ EventKey(evt) = WXK_SHIFT
    /\ key_result.none

\* The offset (x, z) turned by quarter turns about the vertical axis.
QuarterTurns(x, z) == {<<x, z>>, <<0 - z, x>>, <<0 - x, 0 - z>>, <<z, 0 - x>>}

\* C6: the offset _rotate returns for an input with components in {-1, 0, 1}
\* keeps the vertical component, has each horizontal component within one half
\* of the input turned about the vertical axis by the yaw, is not zero, is the
\* input itself at yaw 0 and an exact quarter turn of it at a multiple of 90
\* degrees.
C6_RotateByYaw ==
    moved.called =>
        LET x == moved.input[1]
            z == moved.input[3]
            rx == moved.offset[1]
            rz == moved.offset[3]
        IN  /\ moved.offset[2] = moved.input[2]
            /\ moved.offset # <<0, 0, 0>>
            /\ \E a \in {yaw, 0 - yaw} :
                  /\ 2 * Abs(1000 * rx - (x * Cos1000(a) - z * Sin1000(a))) <= 1000
                  /\ 2 * Abs(1000 * rz - (x * Sin1000(a) + z * Cos1000(a))) <= 1000
            /\ yaw % 360 = 0 => moved.offset = moved.input
            /\ yaw % 90 = 0 => <<rx, rz>> \in QuarterTurns(x, z)
            /\ yaw % 180 = 90 => <<rx, rz>> \in {<<0 - z, x>>, <<z, 0 - x>>}

C6_RotatedDiagonally ==
    /\ moved.called /\ yaw = 45
    /\ moved.input = <<1, 0, 0>>
    /\ Abs(moved.offset[1]) = 1 /\ Abs(moved.offset[3]) = 1

\* The Save that has just run (last is its outcome) read a value field whose
\* text raises exc in ast.literal_eval or in the cast to the tag's class.
SaveRaised(o, exc) ==
    /\ o.op \in {"add_save", "edit_save"}
    /\ o.type \in ScalarTypes
    /\ o.op = "add_save" => o.name # ""
    /\ LET lit == literal_eval(o.text)
       IN  IF o.op = "edit_save" /\ o.type = TAG_String THEN FALSE
           ELSE IF lit.exc # "" THEN lit.exc = exc
           ELSE TagValue(o.type, lit.val).exc = exc

\* The list q without the element x.
Without(q, x) == SelectSeq(q, LAMBDA y : y # x)

\* C2: no handler changes the object nbt_data passed to the constructor; a
\* read of NBTEditor.nbt returns an object that is neither nbt_data nor the
\* object the read before it returned, built from the tags as they are now.
C2_EditorWorksOnCopy ==
    [][/\ nbt_data' = nbt_data
       /\ last'.op = "read" =>
             /\ nbt_out'.oid \notin {None, nbt_data.oid, nbt_out.oid}
             /\ nbt_out'.tag = build_nbt(heap, Root)
             /\ heap' = heap]_vars

C2_EditVisibleInRead ==
    /\ last.op = "read"
    /\ nbt_out.tag # nbt_data.tag
    /\ nbt_out.oid # nbt_data.oid

\* C3: (a) no step changes a tag that is no longer reachable from the root,
\* and (b) an Edit Tag Save that takes the value its dialog copied leaves the
\* tag's value in the tree as it is.
C3_NoRaceBetweenDialogs ==
    [][/\ \A i \in DOMAIN heap :
             i \notin Subtree(heap, Root) => heap'[i] = heap[i]
       /\ (last'.op = "edit_save" /\ last'.fallback /\ last'.result = "ok")
             => heap'[last'.item].value = heap[last'.item].value]_vars

\* C3 (a) and (b) apart.
C3a_RemovedTagUntouched ==
    [][\A i \in DOMAIN heap :
          i \notin Subtree(heap, Root) => heap'[i] = heap[i]]_vars
C3b_NoStaleOverwrite ==
    [][(last'.op = "edit_save" /\ last'.fallback /\ last'.result = "ok")
          => heap'[last'.item].value = heap[last'.item].value]_vars

\* C7: an Edit Tag Save on a TAG_Compound or TAG_List tag ends without error,
\* sets the tag's name to the name field's text and leaves its class, its
\* children and its parent as they are.
C7_ContainerEditRenames ==
    [][(last'.op = "edit_save" /\ last'.type \in ContainerTypes) =>
          /\ last'.result = "ok"
          /\ heap'[last'.item] = [heap[last'.item] EXCEPT !.name = last'.name]]_vars

C7_ContainerEditRaises ==
    /\ last.op = "edit_save" /\ last.type \in ContainerTypes
    /\ last.result = "AttributeError"
    /\ heap[last.item].name # last.name

\* C8: a Save with no tag type, with an empty name, or with a value that raises
\* ValueError or OverflowError shows a message, does not call the save
\* callback, leaves the dialog open and leaves every ParsedNBT object as it is.
C8_RejectedSaveChangesNothing ==
    [][(\/ last'.op = "add_save" /\ (last'.type = "" \/ last'.name = "")
        \/ SaveRaised(last', "ValueError")
        \/ SaveRaised(last', "OverflowError")) =>
          /\ last'.result = "message"
          /\ ~last'.callback
          /\ dialogs' = dialogs
          /\ heap' = heap]_vars

C8_AddRejectedForOverflow ==
    /\ last.op = "add_save" /\ last.result = "message"
    /\ SaveRaised(last, "OverflowError")
C8_EditRejectedForValueError ==
    /\ last.op = "edit_save" /\ last.result = "message"
    /\ SaveRaised(last, "ValueError")
C8_Rejected ==
    \/ C8_EditRejectedForValueError /\ last.type = TAG_Byte
    \/ C8_AddRejectedForOverflow /\ heap[last.item].container

\* C9: when the value field's text raises SyntaxError, an Add Tag Save creates
\* the tag with the default value of the selected class, and an Edit Tag Save
\* sets the name and leaves the tag's value as it is in the tree at that moment.
C9_SyntaxErrorFallback ==
    [][/\ (SaveRaised(last', "SyntaxError") /\ last'.op = "add_save"
           /\ heap[last'.item].container) =>
             /\ last'.result = "ok"
             /\ Len(heap') = Len(heap) + 1
             /\ heap'[Len(heap')].value = DefaultValue(last'.type)
             /\ heap'[Len(heap')].type = last'.type
       /\ (SaveRaised(last', "SyntaxError") /\ last'.op = "edit_save") =>
             /\ last'.result = "ok"
             /\ heap'[last'.item].name = last'.name
             /\ heap'[last'.item].value = heap[last'.item].value]_vars

\* C9, the Add Tag half alone: the tag is added with the default value.  The
\* refresh of the tree that follows may still fail, when the item of the parent
\* was deleted after the dialog opened.
C9_AddFallbackIsDefault ==
    [][(SaveRaised(last', "SyntaxError") /\ last'.op = "add_save"
        /\ heap[last'.item].container) =>
          /\ last'.result \in {"ok", "crash"}
          /\ Len(heap') = Len(heap) + 1
          /\ heap'[Len(heap')].value = DefaultValue(last'.type)
          /\ heap'[Len(heap')].type = last'.type]_vars

\* C10: Delete Tag takes the selected tag, and only that object, out of its
\* parent's children, keeps the order of the others, takes the tag's subtree
\* out of what NBTEditor.nbt is built from, and changes nothing else.
C10_DeleteRemovesExactlyTheTag ==
    [][last'.op = "delete" =>
          LET tag == last'.item
              parent == heap[tag].parent
          IN  /\ heap'[parent].children = Without(heap[parent].children, tag)
              /\ Len(heap'[parent].children) = Len(heap[parent].children) - 1
              /\ heap' = [heap EXCEPT ![parent].children = heap'[parent].children]
              /\ Subtree(heap, tag) \cap Subtree(heap', Root) = {}
              /\ Subtree(heap', Root) = Subtree(heap, Root) \ Subtree(heap, tag)]_vars

\* the second of two tags alike in name, class and value was deleted, and the
\* first is still there
C10_DeletedSecondOfTwoAlike ==
    /\ last.op = "delete"
    /\ \E i \in TreeItems(heap) :
          /\ i < last.item
          /\ heap[i].parent = heap[last.item].parent
          /\ copy(heap[i]) = copy(heap[last.item])
    /\ last.item \notin TreeItems(heap)

\* C13: for a key event that serialise_key_event does not reject, with key
\* standing for evt.GetUnicodeKey() or evt.GetKeyCode(): the key part is the
\* upper-cased one-character string when key is in 33..126, the name SHIFT,
\* ALT, SPACE, PAGE_UP or PAGE_DOWN for those five keys, and key itself, an
\* integer, otherwise; the modifiers are CTRL, then SHIFT and ALT as they are
\* down, when Control is down and none otherwise: the result is a function of
\* key and the three modifier states.
C13_KeyNormalised ==
    (evt.cls = "KeyEvent" /\ ~key_result.none) =>
        LET key == EventKey(evt)
        IN  /\ key_result.key =
                  IF 33 <= key /\ key <= 126
                  THEN KeyChr(IF 97 <= key /\ key <= 122 THEN key - 32 ELSE key)
                  ELSE IF key = WXK_SHIFT THEN KeyName("SHIFT")
                  ELSE IF key = WXK_ALT THEN KeyName("ALT")
                  ELSE IF key = WXK_SPACE THEN KeyName("SPACE")
                  ELSE IF key = WXK_PAGEUP THEN KeyName("PAGE_UP")
                  ELSE IF key = WXK_PAGEDOWN THEN KeyName("PAGE_DOWN")
                  ELSE KeyCode(key)
            /\ key_result.modifier =
                  IF evt.ctrl
                  THEN <<"CTRL">> \o (IF evt.shift THEN <<"SHIFT">> ELSE <<>>)
                                 \o (IF evt.alt THEN <<"ALT">> ELSE <<>>)
                  ELSE <<>>

\* a lower-case letter serialised as its upper-case letter
C13_LowerCaseSerialisedUpper ==
    /\ evt.cls = "KeyEvent" /\ evt.unicode = 97 /\ evt.shift /\ ~evt.ctrl
    /\ key_result = Binding(<<>>, KeyChr(65))

\* C14: a mouse event serialises by its button: the down and the up event of
\* a button both give ((), ML), ((), MM) or ((), MR); a wheel event gives
\* ((), MWSU) for a positive rotation, ((), MWSD) for a negative one and None
\* for rotation 0; every other mouse event gives None.
C14_MouseByButton ==
    evt.cls = "MouseEvent" =>
        key_result =
            IF evt.type \in {"EVT_LEFT_DOWN", "EVT_LEFT_UP"}
            THEN Binding(<<>>, KeyName("ML"))
            ELSE IF evt.type \in {"EVT_MIDDLE_DOWN", "EVT_MIDDLE_UP"}
            THEN Binding(<<>>, KeyName("MM"))
            ELSE IF evt.type \in {"EVT_RIGHT_DOWN", "EVT_RIGHT_UP"}
            THEN Binding(<<>>, KeyName("MR"))
            ELSE IF evt.type = "EVT_MOUSEWHEEL" /\ evt.wheel > 0
            THEN Binding(<<>>, KeyName("MWSU"))
            ELSE IF evt.type = "EVT_MOUSEWHEEL" /\ evt.wheel < 0
            THEN Binding(<<>>, KeyName("MWSD"))
            ELSE NoBinding

\* the release of the right button serialised as the button
C14_RightUpSerialisedAsButton ==
    /\ evt.cls = "MouseEvent" /\ evt.type = "EVT_RIGHT_UP"
    /\ key_result = Binding(<<>>, KeyName(MouseRight))

\* C11: the menu has the Add Tag entry only when the right-clicked item holds
\* a ParsedNBTContainer; for every right-clicked and every focused item the
\* dialog Add Tag opens is on a ParsedNBTContainer, and so is every Save of
\* it; a Save that succeeds appends the new tag as the last child of that
\* container.
C11_AddTagTargetsContainer ==
    [][/\ last'.op = "add" =>
             /\ heap[last'.clicked].container
             /\ heap[last'.item].container
       /\ last'.op = "add_save" => heap[last'.item].container
       /\ (last'.op = "add_save" /\ last'.result = "ok") =>
             /\ Len(heap') = Len(heap) + 1
             /\ heap'[Len(heap')].parent = last'.item
             /\ heap'[last'.item].children
                   = Append(heap[last'.item].children, Len(heap'))]_vars

\* C11, cut down to what the code does: the entry is offered on a container,
\* and a Save that succeeds appends to a container; the dialog is on the
\* focused item, whatever it holds.
C11_SavedTagGoesToContainer ==
    [][/\ last'.op = "add" => heap[last'.clicked].container
       /\ (last'.op = "add_save" /\ last'.result = "ok") =>
             /\ heap[last'.item].container
             /\ Len(heap') = Len(heap) + 1
             /\ heap'[Len(heap')].parent = last'.item
             /\ heap'[last'.item].children
                   = Append(heap[last'.item].children, Len(heap'))
       /\ (last'.op = "add_save" /\ last'.callback /\ ~heap[last'.item].container)
             => last'.result = "AttributeError" /\ heap' = heap]_vars

\* a Save of an Add Tag dialog that was opened on a value tag
C11_AddDialogOnValue ==
    /\ last.op = "add_save" /\ last.callback
    /\ ~heap[last.item].container
    /\ last.result = "AttributeError"

\* The tree shows the tags as they are: one top-level item for each child of
\* NBTEditor._parent, one item for every tag below, each under the item of the
\* tag's parent.
TreeShows(t, h) ==
    /\ ItemIds(t) = TreeItems(h)
    /\ Cardinality(t) = Cardinality(TreeItems(h))
    /\ \A i \in t : i.parent = IF h[i.data].parent = Root THEN NoItem
                                ELSE h[i.data].parent

\* C12: for every compound (no, one or several top-level entries, each a
\* value, a list or a compound) NBTEditor.__init__ returns, and the tree then
\* has one top-level item for each top-level entry, in the entry's name and
\* class, and every tag below under its parent's item.  Documents with a list
\* inside a list are left out: parse_nbt fails on them (C1).
C12_EveryTopLevelEntryShown ==
    (phase # "new" /\ ~HasListInList(nbt_data.tag)) =>
        /\ phase = "ready"
        /\ TreeShows(tree, heap)
        /\ Len(heap[Root].children) = Len(nbt_data.tag.e)
        /\ Cardinality({i \in tree : i.parent = NoItem}) = Len(nbt_data.tag.e)
        /\ \A k \in DOMAIN nbt_data.tag.e :
              /\ heap[heap[Root].children[k]].name = nbt_data.tag.e[k].n
              /\ heap[heap[Root].children[k]].type = nbt_data.tag.e[k].d.t

\* C12, cut down to what the code does: the tree shows every tag whenever the
\* constructor returns, which it does for no document with a top-level value.
C12_ShownWhenConstructed ==
    /\ phase = "ready" =>
          /\ ~HasTopLevelValue(nbt_data.tag)
          /\ TreeShows(tree, heap)
          /\ Cardinality({i \in tree : i.parent = NoItem}) = Len(nbt_data.tag.e)
    /\ (phase # "new" /\ Len(nbt_data.tag.e) = 0) => phase = "ready"

C12_TopLevelValueCrashes ==
    /\ phase = "crashed" /\ last.result = "AttributeError"
    /\ nbt_data.tag = NbtContainer(TAG_Compound,
           <<Entry("a", NbtScalar(TAG_Byte, IntVal(1)))>>)

C12_SecondRootCrashes ==
    /\ phase = "crashed" /\ last.result = "wxAssertionError"
    /\ ~HasTopLevelValue(nbt_data.tag) /\ Len(nbt_data.tag.e) = 2

\* The size of the selection box: point 2 - point 1.
BoxSize(positions) ==
    << positions[2][1] - positions[1][1], positions[2][2] - positions[1][2],
       positions[2][3] - positions[1][3] >>

Plus(point, offset) ==
    <<point[1] + offset[1], point[2] + offset[2], point[3] + offset[3]>>

\* C16: a move of Point1MoveButton by o adds o to point 1 and leaves point 2,
\* a move of Point2MoveButton adds o to point 2 and leaves point 1, and a move
\* of SelectionMoveButton adds o to both, so that it leaves the size of the
\* box, point 2 - point 1, as it was.
C16_MoveButtonsMoveTheirPoints ==
    [][LET before == active_block_positions
           after == active_block_positions'
           o == move_evt'.offset
       IN  /\ move_evt'.handler = "Point1MoveButton" =>
                 after = <<Plus(before[1], o), before[2]>>
           /\ move_evt'.handler = "Point2MoveButton" =>
                 after = <<before[1], Plus(before[2], o)>>
           /\ move_evt'.handler = "SelectionMoveButton" =>
                 /\ after = <<Plus(before[1], o), Plus(before[2], o)>>
                 /\ BoxSize(after) = BoxSize(before)]_vars

\* A box of a size other than zero has been moved as a whole, away from where
\* it was typed in.
C16_BoxMovedAsAWhole ==
    /\ move_evt.handler = "SelectionMoveButton"
    /\ move_evt.offset # <<0, 0, 0>>
    /\ BoxSize(active_block_positions) = <<0 - 2, 0 - 1, 0>>
    /\ active_block_positions \notin BoxInputs

\* The decimal numbers among the number texts of the model's clipboards, each
\* with its value.
DecimalNumbers ==
    (<<"1">> :> Float(FALSE, 1, 0))
    @@ (<<"-", "2", ".", "5">> :> Float(TRUE, 2, 500))
    @@ (<<"1", ".", "2", "3", "4">> :> Float(FALSE, 1, 234))
    @@ (<<"4", "0", "0", "0", "0", "0", "0", "0">> :> Float(FALSE, 40000000, 0))
    @@ (<<"3", ".">> :> Float(FALSE, 3, 0))
    @@ (<<"-", "4", "0", "0", "0", "0", "0", "0", "0">> :> Float(TRUE, 40000000, 0))

\* The clipboard holds exactly three decimal numbers, separated by a comma with
\* optional white space after it or by white space, with an optional comma and
\* white space at the end.
ThreeNumbers(c) ==
    /\ c.is_text
    /\ Len(c.nums) = 3
    /\ \A k \in 1..3 : c.nums[k] \in DOMAIN DecimalNumbers
    /\ \A k \in 1..2 : c.seps[k] \in {<<",">>, <<",", " ">>, <<" ", "\n">>}
    /\ c.trail \in {<<>>, <<",">>, <<",", " ">>}

CtrlV(e) == e.ctrl /\ e.code = 22

\* A number the spin controls can hold: within their range, of at most two
\* decimal places.
Fits(v) == (v.whole < SpinMax \/ (v.whole = SpinMax /\ v.frac = 0)) /\ v.frac % 10 = 0

\* C15: on Ctrl+V, when the clipboard can be opened and holds exactly three
\* decimal numbers, x, y and z are set to the three numbers in order and the
\* event is consumed; in every other case x, y and z stay as they were and the
\* event is skipped.
C15_PasteAllOrNothing ==
    [][(CtrlV(text_evt') /\ clipboard \in Clipboards) =>
          IF text_evt'.opened /\ ThreeNumbers(clipboard)
          THEN /\ location' = [k \in 1..3 |-> DecimalNumbers[clipboard.nums[k]]]
               /\ ~text_evt'.skipped
          ELSE /\ location' = location
               /\ text_evt'.skipped]_vars

\* The same, but only a number the control can hold is sure to be set: one of
\* more than two decimal places is rounded to two, one outside the range leaves
\* its control as it was or at the end of the range.
C15_PasteOfNumbersThatFit ==
    [][(CtrlV(text_evt') /\ clipboard \in Clipboards) =>
          IF text_evt'.opened /\ ThreeNumbers(clipboard)
          THEN /\ ~text_evt'.skipped
               /\ \A k \in 1..3 :
                     LET v == DecimalNumbers[clipboard.nums[k]]
                     IN  IF Fits(v) THEN location'[k] = v
                         ELSE location'[k] \in
                                 {location[k], Float(v.neg, SpinMax, 0)}
                                 \cup Round2(v)
          ELSE /\ location' = location
               /\ text_evt'.skipped]_vars

\* What Ctrl+C put on the clipboard pastes back as the same x, y and z.
C15_PasteOfCopy ==
    [][(CtrlV(text_evt') /\ text_evt'.opened /\ clipboard \notin Clipboards) =>
          location' = location /\ ~text_evt'.skipped]_vars

\* Three numbers were pasted, the event consumed, and x is as it was while y
\* has the second number: the first number is outside the range.
C15_PastedInPart ==
    /\ CtrlV(text_evt) /\ ~text_evt.skipped
    /\ clipboard \in Clipboards /\ ThreeNumbers(clipboard)
    /\ DecimalNumbers[clipboard.nums[1]] = Float(FALSE, 40000000, 0)
    /\ location[1] = Float(FALSE, 0, 0)
    /\ location[2] = Float(TRUE, 2, 500)

\* Three numbers that fit were pasted, after a comma and after white space.
C15_Pasted ==
    /\ CtrlV(text_evt) /\ ~text_evt.skipped
    /\ clipboard.seps = <<<<",">>, <<" ", "\n">>>>
    /\ location = <<Float(FALSE, 1, 0), Float(TRUE, 2, 500), Float(FALSE, 3, 0)>>

====
